---- MODULE Spec2Model ----
(***************************************************************************)
(* A model of the MJAI game-log downloader (src/down_mjai_app.py):         *)
(*   - check_url_exists, the existence probe with bounded retry;           *)
(*   - find_max_games, exponential expansion followed by binary search;    *)
(*   - download_file / download_game / download_range, the sweep over a    *)
(*     range of matches with a bounded worker pool per match;              *)
(*   - generate_index / check_existing_files, the scan of the storage tree.*)
(*                                                                         *)
(* Specifications:                                                         *)
(*   SpecFind  find_max_games, one probe per step, for every boundary B;   *)
(*   Spec      main() in download mode: one sweep of download_range.       *)
(***************************************************************************)
EXTENDS Integers, Sequences, FiniteSets, TLC

VARIABLES
    \* ---- find_max_games (SpecFind) ----
    B,            \* the store's true boundary: key k exists iff k <= B
    flaky,        \* whether probes may meet transient failures
    find,           \* the locals of find_max_games: [pc, low, high, last_valid]
    probed,       \* the probes of find_max_games so far: [key, exists]
    \* ---- main / download_range (Spec) ----
    args,         \* the command line: start, end, start_round, end_round, ...
    pc,           \* the orchestrator's position
    game_id,      \* the loop variable of download_range
    end_game,     \* end_game once resolved
    existing,     \* main's inventory from check_existing_files
    tree,         \* the storage tree under save_dir
    queue,        \* the executor's work queue: rounds not yet picked up
    wk,           \* the batch's futures: round -> the worker's record
    totals,       \* [downloaded, files]: the running totals
    index_json,   \* the content of save_dir/index.json
    hist,         \* what the sweep has done so far (for the properties)
    \* ---- check_url_exists alone (SpecProbe) ----
    heads,        \* the answers the HEAD requests of one call will get
    answer,       \* the call's outcome: [done, exists, requests]
    \* ---- generate_index alone (SpecIndex) ----
    dir_order,    \* the order os.listdir(save_dir) lists the directories in
    catalogs      \* what the generate_index calls so far returned and wrote

vars == <<B, flaky, find, probed, args, pc, game_id, end_game, existing, tree,
          queue, wk, totals, index_json, hist, heads, answer, dir_order, catalogs>>

findVars == <<B, flaky, find, probed>>
sweepVars == <<args, pc, game_id, end_game, existing, tree, queue, wk, totals,
               index_json, hist>>
scanVars == <<heads, answer, dir_order, catalogs>>

(***************************************************************************)
(* Bounds of the model and constants of the program.                       *)
(***************************************************************************)
\* Python's None for an optional integer argument.
NoneVal == -1

\* MJDataDownloader.__init__: retry_times=3 (main never overrides it).
retry_times == 3

\* find_max_games: step = 100.
step == 100

\* The largest boundary B explored for find_max_games.
MaxB == 220

(***************************************************************************)
(* Text: str(int) and int(str) over sequences of characters.               *)
(***************************************************************************)
DigitChars == <<"0", "1", "2", "3", "4", "5", "6", "7", "8", "9">>

IsDigit(c) == \E i \in 1..10 : DigitChars[i] = c

DigitVal(c) == (CHOOSE i \in 1..10 : DigitChars[i] = c) - 1

\* str(n) for n >= 0: the decimal digits, most significant first.
RECURSIVE str(_)
str(n) == IF n < 10 THEN <<DigitChars[n + 1]>>
          ELSE Append(str(n \div 10), DigitChars[(n % 10) + 1])

\* Whether int(s) succeeds: a non-empty run of digits (ValueError otherwise).
IsInt(s) == Len(s) > 0 /\ \A i \in 1..Len(s) : IsDigit(s[i])

\* int(s) for a run of digits.
RECURSIVE int(_)
int(s) == IF Len(s) = 0 THEN 0
          ELSE 10 * int(SubSeq(s, 1, Len(s) - 1)) + DigitVal(s[Len(s)])

(***************************************************************************)
(* check_url_exists: the answers of the HEAD requests are the input.       *)
(*   "200", "404": the status codes; "5xx": any other status;              *)
(*   "exc": requests.RequestException (network failure, timeout).          *)
(***************************************************************************)
Answers == {"200", "404", "5xx", "exc"}

\* for i in range(self.retry_times), line 25
ProbeAttempt(i) == i < retry_times

\* A loop in which a 404 is retried like any other status instead of
\* returning (line 30-31 left out).
RECURSIVE CheckFromRetrying404(_, _)
CheckFromRetrying404(resp, i) ==
    IF ~ProbeAttempt(i) THEN [exists |-> FALSE, requests |-> i]
    ELSE LET a == resp[i + 1] IN
         CASE a = "200" -> [exists |-> TRUE, requests |-> i + 1]
           [] a = "exc" -> IF i = retry_times - 1
                           THEN [exists |-> FALSE, requests |-> i + 1]
                           ELSE CheckFromRetrying404(resp, i + 1)
           [] OTHER     -> CheckFromRetrying404(resp, i + 1)

\* The loop of check_url_exists from attempt i on; resp[i + 1] answers attempt i.
\* Returns [exists, requests]: the result and the number of requests sent.
RECURSIVE CheckFrom(_, _)
CheckFrom(resp, i) ==
    IF ~ProbeAttempt(i) THEN [exists |-> FALSE, requests |-> i]
    ELSE LET a == resp[i + 1] IN
         CASE a = "200" -> [exists |-> TRUE, requests |-> i + 1]
           [] a = "404" -> [exists |-> FALSE, requests |-> i + 1]
           [] a = "exc" -> IF i = retry_times - 1
                           THEN [exists |-> FALSE, requests |-> i + 1]
                           ELSE CheckFrom(resp, i + 1)
           [] OTHER     -> CheckFrom(resp, i + 1)

check_url_exists(resp) == CheckFrom(resp, 0)

\* What a store can answer to the probes of one call, for a key that is
\* (present) or is not there: the definitive status, or a transient failure.
StoreAnswers(present, transient) ==
    LET definitive == IF present THEN "200" ELSE "404"
        each == IF transient THEN {definitive, "5xx", "exc"} ELSE {definitive}
    IN  [1..retry_times -> each]

(***************************************************************************)
(* find_max_games: the locals as a record, one probe per step.             *)
(***************************************************************************)
\* low, high = 1, 1; last_valid is assigned when the expansion ends.
FindStart == [pc |-> "expand", low |-> 1, high |-> 1, last_valid |-> NoneVal]

\* The key the next probe tests.
FindKey(f) == IF f.pc = "expand" THEN f.high ELSE (f.low + f.high) \div 2

\* An expansion that doubles the key instead of adding the step.
ExpandStepDoubling(f, ex) ==
    IF ex THEN [f EXCEPT !.low = f.high, !.high = 2 * f.high + step]
    ELSE [f EXCEPT !.pc = "search", !.last_valid = f.low]

\* One turn of `while True` (lines 76-82), then last_valid = low (line 85).
ExpandStep(f, ex) ==
    IF ex THEN [f EXCEPT !.low = f.high, !.high = f.high + step]
    ELSE [f EXCEPT !.pc = "search", !.last_valid = f.low]

\* One turn of `while low <= high` (lines 86-94).
SearchStep(f, ex) ==
    LET mid == (f.low + f.high) \div 2 IN
    IF ex THEN [f EXCEPT !.last_valid = mid, !.low = mid + 1]
    ELSE [f EXCEPT !.high = mid - 1]

\* The loop test of the binary search fails: return last_valid.
FindExit(f) == [f EXCEPT !.pc = "done"]

FindStep(f, ex) ==
    CASE f.pc = "expand" -> ExpandStep(f, ex)
      [] f.pc = "search" /\ f.low <= f.high -> SearchStep(f, ex)
      [] f.pc = "search" /\ f.low > f.high -> FindExit(f)
      [] OTHER -> f

\* find_max_games run to its return against a store with boundary b that
\* answers every probe definitively.
RECURSIVE FindRun(_, _)
FindRun(f, b) ==
    IF f.pc = "done" THEN f.last_valid
    ELSE FindRun(FindStep(f, FindKey(f) <= b), b)

find_max_games(b) == FindRun(FindStart, b)

(***************************************************************************)
(* The remote store and the storage tree.                                  *)
(*                                                                         *)
(* A name is a sequence of tokens: the digits, "_", and the fixed pieces   *)
(* "mjai", ".json", ".gz" of the artifact names.  A file's content is a    *)
(* record [g, r, enc, whole]: the log of round r of match g, raw or        *)
(* gzip-encoded, whole or cut short by a failed write.                     *)
(***************************************************************************)
\* The last match the store holds (matches 1..LastGame exist).
LastGame == 2

\* The value find_max_rounds returns.  The program's stub returns 250; the
\* model scales it down, no operation depends on the value itself.
MaxRoundsStub == 2

\* The largest pool explored (--threads): one worker, or MaxWorkers.
MaxWorkers == 2

\* Every match of the store holds rounds 1..LastRound, fewer than the stub.
LastRound == MaxRoundsStub - 1

\* Match ids on the command line range over 1..MaxGame.
MaxGame == LastGame + 1

RemoteStore == {gr \in (1..LastGame) \X (1..LastRound) : TRUE}

\* response.content of base_url/{g}/{r}_0_mjai.json
Body(g, r) == [g |-> g, r |-> r, enc |-> "raw", whole |-> TRUE]

\* gzip.open(..., 'wb') + shutil.copyfileobj: the gzip stream of a content,
\* and what reading it back through gzip yields.
gzip(c) == [c EXCEPT !.enc = "gzip"]
gunzip(z) == [z EXCEPT !.enc = "raw"]

\* A write that failed part-way (disk full) leaves a file cut short.
Cut(c) == [c EXCEPT !.whole = FALSE]

\* f"{round_id}_0_mjai.json"
RoundFile(r) == str(r) \o <<"_", "0", "_", "mjai", ".json">>

\* os.path.basename(save_path) + ".gz"
GzName(name) == Append(name, ".gz")

\* A path that does not depend on the round: one file per match.
SavePathOfMatch(g, r) == <<str(g), RoundFile(1)>>

\* os.path.join(save_dir, str(game_id), f"{round_id}_0_mjai.json")
SavePath(g, r) == <<str(g), RoundFile(r)>>

GzPath(path) == <<path[1], GzName(path[2])>>

EmptyTree == [root |-> FALSE, dirs |-> {}, files |-> <<>>]

Exists(t, path) == path \in DOMAIN t.files

\* os.makedirs(dirname, exist_ok=True)
MakeDirs(t, d) == [t EXCEPT !.root = TRUE, !.dirs = @ \cup {d}]

\* open(path, 'wb') + write: create or replace the file.
WriteFile(t, path, c) ==
    [t EXCEPT !.files = [q \in DOMAIN @ \cup {path} |->
                            IF q = path THEN c ELSE @[q]]]

\* os.remove(path); the variant leaves the file in place.
RemoveFileKeep(t, path) == t
RemoveFile(t, path) ==
    [t EXCEPT !.files = [q \in DOMAIN @ \ {path} |-> @[q]]]

\* os.listdir(game_path)
ListDir(t, d) == {q[2] : q \in {x \in DOMAIN t.files : x[1] = d}}

(***************************************************************************)
(* generate_index and check_existing_files.                                *)
(***************************************************************************)
\* file.endswith(".json")
EndsWithJson(name) == Len(name) > 0 /\ name[Len(name)] = ".json"

\* "_0_mjai.json" in file
HasRoundSuffix(name) ==
    \E k \in 1..Len(name) :
        /\ k + 4 <= Len(name)
        /\ SubSeq(name, k, k + 4) = <<"_", "0", "_", "mjai", ".json">>

\* A test that leaves out file.endswith(".json").
IsRoundFileAnywhere(name) == HasRoundSuffix(name)

\* file.endswith(".json") and "_0_mjai.json" in file  (lines 221, 263)
IsRoundFile(name) == EndsWithJson(name) /\ HasRoundSuffix(name)

\* file.split("_")[0]
FirstField(name) ==
    IF \E k \in 1..Len(name) : name[k] = "_"
    THEN LET k == CHOOSE j \in 1..Len(name) :
                     name[j] = "_" /\ \A h \in 1..(j - 1) : name[h] # "_"
         IN  SubSeq(name, 1, k - 1)
    ELSE name

\* The files of directory d that add a round to `rounds` (lines 220-227).
RoundFiles(t, d) ==
    {n \in ListDir(t, d) : IsRoundFile(n) /\ IsInt(FirstField(n))}

RoundOf(name) == int(FirstField(name))

\* sorted(rounds): one element per file, ascending.
RECURSIVE SortedRounds(_)
SortedRounds(names) ==
    IF names = {} THEN <<>>
    ELSE LET n == CHOOSE x \in names :
                    \A y \in names : RoundOf(x) <= RoundOf(y)
         IN  <<RoundOf(n)>> \o SortedRounds(names \ {n})

MinOf(S) == CHOOSE x \in S : \A y \in S : x <= y
MaxOf(S) == CHOOSE x \in S : \A y \in S : x >= y

\* A record that adds the rounds counted by the index.json already on disk
\* (an index updated in place instead of rebuilt).
GameRecordAdding(t, d) ==
    LET names == RoundFiles(t, d)
        vals == {RoundOf(n) : n \in names}
        key == str(int(d))
        before == IF index_json.written /\ key \in DOMAIN index_json.content
                  THEN index_json.content[key].total_rounds
                  ELSE 0
    IN  [total_rounds |-> Cardinality(names) + before,
         min_round |-> MinOf(vals),
         max_round |-> MaxOf(vals),
         rounds |-> SortedRounds(names),
         directory |-> d]

\* The record of lines 230-236 for directory d.
GameRecord(t, d) ==
    LET names == RoundFiles(t, d)
        vals == {RoundOf(n) : n \in names}
    IN  [total_rounds |-> Cardinality(names),
         min_round |-> MinOf(vals),
         max_round |-> MaxOf(vals),
         rounds |-> SortedRounds(names),
         directory |-> d]

\* index[game_id] = record
Put(index, k, v) ==
    [x \in DOMAIN index \cup {k} |-> IF x = k THEN v ELSE index[x]]

\* The loop of lines 208-236 over os.listdir(save_dir) in the order `listing`,
\* from position k on.  An entry that is no directory (os.path.isdir, line
\* 210), has no integer name (line 215) or leaves `rounds` empty (line 229)
\* adds nothing.
RECURSIVE IndexFrom(_, _, _, _)
IndexFrom(t, listing, k, index) ==
    IF k > Len(listing) THEN index
    ELSE LET d == listing[k] IN
         IF d \in t.dirs /\ IsInt(d) /\ RoundFiles(t, d) # {}
         THEN IndexFrom(t, listing, k + 1, Put(index, int(d), GameRecord(t, d)))
         ELSE IndexFrom(t, listing, k + 1, index)

generate_index(t, listing) == IndexFrom(t, listing, 1, <<>>)

\* json.dump(index): the keys of a JSON object are strings.
json_dump(index) ==
    [k \in {str(g) : g \in DOMAIN index} |-> index[int(k)]]

\* The orders os.listdir(save_dir) may list the directories in.
Listings(t) ==
    {l \in [1..Cardinality(t.dirs) -> t.dirs] :
        \A i, j \in DOMAIN l : i # j => l[i] # l[j]}

\* check_existing_files: game_id -> number of round files (lines 246-269).
check_existing_files(t) ==
    IF ~t.root THEN <<>>
    ELSE LET found == {d \in t.dirs :
                          IsInt(d) /\ {n \in ListDir(t, d) : IsRoundFile(n)} # {}}
         IN  [g \in {int(d) : d \in found} |->
                 LET d == CHOOSE x \in found : int(x) = g
                 IN  Cardinality({n \in ListDir(t, d) : IsRoundFile(n)})]

(***************************************************************************)
(* SpecFind: find_max_games against a store with boundary B.               *)
(***************************************************************************)
\* No call of check_url_exists or generate_index of its own is under way.
ScanIdle ==
    /\ heads = <<>>
    /\ answer = [done |-> FALSE, exists |-> FALSE, requests |-> 0]
    /\ dir_order = <<>>
    /\ catalogs = <<>>

SweepIdle ==
    /\ args = [start |-> 1, end |-> NoneVal, start_round |-> 1,
               end_round |-> NoneVal, skip_existing |-> FALSE, threads |-> 1]
    /\ pc = "idle"
    /\ game_id = 0
    /\ end_game = NoneVal
    /\ existing = <<>>
    /\ tree = EmptyTree
    /\ queue = <<>>
    /\ wk = <<>>
    /\ totals = [downloaded |-> 0, files |-> 0]
    /\ index_json = [written |-> FALSE, content |-> <<>>]
    /\ hist = <<>>

InitFind ==
    /\ B \in 0..MaxB
    /\ flaky \in BOOLEAN
    /\ find = FindStart
    /\ probed = <<>>
    /\ SweepIdle
    /\ ScanIdle

\* A probe of find_max_games (lines 77-78, 88-90): check_url_exists on the key.
FindProbe ==
    /\ find.pc = "expand" \/ (find.pc = "search" /\ find.low <= find.high)
    /\ \E resp \in StoreAnswers(FindKey(find) <= B, flaky) :
          LET ex == check_url_exists(resp).exists IN
          /\ find' = FindStep(find, ex)
          /\ probed' = Append(probed, [key |-> FindKey(find), exists |-> ex])
    /\ UNCHANGED <<B, flaky>>
    /\ UNCHANGED <<sweepVars, scanVars>>

\* The bounds have crossed: return last_valid (line 96).
FindReturn ==
    /\ find.pc = "search" /\ find.low > find.high
    /\ find' = FindStep(find, FALSE)
    /\ UNCHANGED <<B, flaky, probed>>
    /\ UNCHANGED <<sweepVars, scanVars>>

NextFind == FindProbe \/ FindReturn

SpecFind == InitFind /\ [][NextFind]_vars

\* C1: for every boundary B in 0..10000 and the monotonic predicate
\* "key k exists iff k <= B", find_max_games returns exactly B.
CE_C1_ReturnsBoundary ==
    (find.pc = "done" /\ ~flaky) => find.last_valid = B

\* C2: when the first key is already absent (the probe of match 1 answers
\* not-exists, also when only because the retries were exhausted),
\* find_max_games returns 0.
CE_C2_ZeroWhenFirstAbsent ==
    (find.pc = "done" /\ probed[1].key = 1 /\ ~probed[1].exists)
        => find.last_valid = 0

(***************************************************************************)
(* Spec: main() in download mode, one sweep of download_range.             *)
(***************************************************************************)
\* find_max_rounds: the constant stub.
find_max_rounds(g) == MaxRoundsStub

\* The rounds of a range that runs to the end round asked for, without the
\* min(..., self.find_max_rounds(game_id)) of line 168.
TaskRoundsUnclipped(g) ==
    LET lo == IF args.start_round > 1 \/ args.end_round # NoneVal
              THEN args.start_round ELSE 1
        hi == IF args.end_round = NoneVal
              THEN find_max_rounds(g) ELSE args.end_round
    IN  [k \in 1..(hi - lo + 1) |-> lo + k - 1]

\* The rounds download_range makes tasks for (lines 159-172, 190 with
\* download_game lines 100-111), in submission order.
TaskRounds(g) ==
    LET lo == IF args.start_round > 1 \/ args.end_round # NoneVal
              THEN args.start_round ELSE 1
        end_round_actual == IF args.end_round = NoneVal
                            THEN find_max_rounds(g) ELSE args.end_round
        hi == IF args.start_round > 1 \/ args.end_round # NoneVal
              THEN IF end_round_actual < find_max_rounds(g)
                   THEN end_round_actual ELSE find_max_rounds(g)
              ELSE find_max_rounds(g)
    IN  [k \in 1..(hi - lo + 1) |-> lo + k - 1]

\* The storage tree an earlier, successful run over match 1 has left: the
\* compressed artifact of every round the store holds for match 1.
Match1Downloaded ==
    [root |-> TRUE,
     dirs |-> {str(1)},
     files |-> [q \in {GzPath(SavePath(1, r)) : r \in 1..LastRound} |->
                   LET r == CHOOSE x \in 1..LastRound : GzPath(SavePath(1, x)) = q
                   IN  gzip(Body(1, r))]]

Init ==
    /\ B = LastGame
    /\ flaky = FALSE
    /\ find = FindStart
    /\ probed = <<>>
    /\ args \in [start : 1..2, end : {NoneVal, MaxGame},
                 start_round : 1..2, end_round : {NoneVal, LastRound},
                 skip_existing : BOOLEAN, threads : {1, MaxWorkers}]
    /\ pc = "main"
    /\ game_id = 0
    /\ end_game = NoneVal
    /\ existing = <<>>
    /\ \E pre \in BOOLEAN :
          \* --skip-existing is explored on a re-run over an earlier run's tree
          /\ args.skip_existing => pre
          /\ tree = IF pre THEN Match1Downloaded ELSE EmptyTree
          /\ index_json = [written |-> pre, content |-> <<>>]
          /\ hist = [probes |-> <<>>, absent |-> {}, issued |-> {}, slept |-> {},
                     gets |-> {}, preloaded |-> pre]
    /\ queue = <<>>
    /\ wk = <<>>
    /\ totals = [downloaded |-> 0, files |-> 0]
    /\ ScanIdle

\* main, lines 311-325, and the head of download_range, lines 138-148.
Main ==
    /\ pc = "main"
    /\ existing' = IF args.skip_existing THEN check_existing_files(tree) ELSE <<>>
    /\ end_game' = IF args.end = NoneVal THEN find_max_games(B) ELSE args.end
    /\ game_id' = args.start
    /\ pc' = "loop"
    /\ UNCHANGED <<args, tree, queue, wk, totals, index_json, hist>>
    /\ UNCHANGED <<findVars, scanVars>>

\* if not self.check_url_exists(first_round_url): continue   (line 154); the
\* variant lets every match through.
GatePassesAlways(ex) == TRUE
GatePasses(ex) == ex

\* The existence gate of a match (lines 153-156) and, when it passes, the
\* submission of the match's tasks to a new executor (lines 159-179, 105-119).
Gate ==
    /\ pc = "loop"
    /\ game_id <= end_game
    /\ \E resp \in StoreAnswers(<<game_id, 1>> \in RemoteStore, TRUE) :
          LET ex == check_url_exists(resp).exists
              probe == [hist EXCEPT
                           !.probes = Append(@, game_id),
                           !.absent = IF ex THEN @ ELSE @ \cup {game_id}]
          IN
          IF GatePasses(ex)
          THEN /\ queue' = TaskRounds(game_id)
               /\ wk' = <<>>
               /\ pc' = "batch"
               /\ game_id' = game_id
               /\ hist' = [probe EXCEPT
                              !.issued = @ \cup {<<game_id, TaskRounds(game_id)[k]>> :
                                                    k \in DOMAIN TaskRounds(game_id)}]
          ELSE /\ game_id' = game_id + 1
               /\ pc' = "loop"
               /\ hist' = probe
               /\ UNCHANGED <<queue, wk>>
    /\ UNCHANGED <<args, end_game, existing, tree, totals, index_json>>
    /\ UNCHANGED <<findVars, scanVars>>

\* ThreadPoolExecutor(max_workers=self.max_workers): a queued task starts
\* when fewer than max_workers tasks are running.
Running == {r \in DOMAIN wk :
               wk[r].st \in {"get", "mkdir", "write", "compress", "remove"}}

\* (the variant starts a task whatever the number running)
WorkerFreeAlways == TRUE
WorkerFree == Cardinality(Running) < args.threads

WorkerStart ==
    /\ pc = "batch"
    /\ queue # <<>>
    /\ WorkerFree
    /\ wk' = [r \in DOMAIN wk \cup {Head(queue)} |->
                 IF r = Head(queue)
                 THEN [st |-> "get", i |-> 0, sent |-> 0, got |-> FALSE,
                       body |-> Body(0, 0), wrote |-> FALSE]
                 ELSE wk[r]]
    /\ queue' = Tail(queue)
    /\ UNCHANGED <<args, pc, game_id, end_game, existing, tree, totals,
                   index_json, hist>>
    /\ UNCHANGED <<findVars, scanVars>>

\* for i in range(self.retry_times), line 40
FetchAttempt(i) == i < retry_times

\* except requests.RequestException (lines 57-60), then the loop's next turn
\* or, the range used up, the return of line 61.
\* (the variant gives up one attempt early)
AfterFetchErrorEarly(w) ==
    IF w.i = retry_times - 2 THEN [w EXCEPT !.st = "failed"]
    ELSE IF FetchAttempt(w.i + 1) THEN [w EXCEPT !.i = @ + 1]
    ELSE [w EXCEPT !.st = "failed"]
AfterFetchError(w) ==
    IF w.i = retry_times - 1 THEN [w EXCEPT !.st = "failed"]
    ELSE IF FetchAttempt(w.i + 1) THEN [w EXCEPT !.i = @ + 1]
    ELSE [w EXCEPT !.st = "failed"]

\* session.get + raise_for_status (lines 42-43): the body, or a
\* RequestException (transport failure, or the status of a missing round).
WorkerGet(r) ==
    /\ pc = "batch"
    /\ r \in DOMAIN wk
    /\ wk[r].st = "get"
    /\ \E ok \in IF <<game_id, r>> \in RemoteStore THEN BOOLEAN ELSE {FALSE} :
          LET w == [wk[r] EXCEPT !.sent = @ + 1] IN
          wk' = [wk EXCEPT ![r] =
                    IF ok THEN [w EXCEPT !.st = "mkdir", !.got = TRUE,
                                         !.body = Body(game_id, r)]
                    ELSE AfterFetchError(w)]
    /\ hist' = [hist EXCEPT !.gets = @ \cup {<<game_id, r>>}]
    /\ UNCHANGED <<args, pc, game_id, end_game, existing, tree, queue, totals,
                   index_json>>
    /\ UNCHANGED <<findVars, scanVars>>

\* os.makedirs(os.path.dirname(save_path), exist_ok=True), line 46; an OSError
\* is not a RequestException and leaves download_file.
WorkerMkdir(r) ==
    /\ pc = "batch"
    /\ r \in DOMAIN wk
    /\ wk[r].st = "mkdir"
    /\ \/ /\ tree' = MakeDirs(tree, str(game_id))
          /\ wk' = [wk EXCEPT ![r].st = "write"]
       \/ /\ wk' = [wk EXCEPT ![r].st = "raised"]
          /\ UNCHANGED tree
    /\ UNCHANGED <<args, pc, game_id, end_game, existing, queue, totals,
                   index_json, hist>>
    /\ UNCHANGED <<findVars, scanVars>>

\* open(save_path, 'wb') and f.write(response.content), lines 48-49; on an
\* OSError the file is not there (open failed) or is cut short (write failed).
WorkerWrite(r) ==
    /\ pc = "batch"
    /\ r \in DOMAIN wk
    /\ wk[r].st = "write"
    /\ \/ /\ tree' = WriteFile(tree, SavePath(game_id, r), wk[r].body)
          /\ wk' = [wk EXCEPT ![r].st = "compress", ![r].wrote = TRUE]
       \/ /\ tree' = WriteFile(tree, SavePath(game_id, r), Cut(wk[r].body))
          /\ wk' = [wk EXCEPT ![r].st = "raised", ![r].wrote = TRUE]
       \/ /\ wk' = [wk EXCEPT ![r].st = "raised"]
          /\ UNCHANGED tree
    /\ UNCHANGED <<args, pc, game_id, end_game, existing, queue, totals,
                   index_json, hist>>
    /\ UNCHANGED <<findVars, scanVars>>

\* What gzip.open + shutil.copyfileobj store at the .gz path (lines 51-54):
\* the gzip stream of the temporary file's content.
Compressed(t, path) == gzip(t.files[path])

WorkerCompress(r) ==
    /\ pc = "batch"
    /\ r \in DOMAIN wk
    /\ wk[r].st = "compress"
    /\ LET path == SavePath(game_id, r) IN
       \/ /\ tree' = WriteFile(tree, GzPath(path), Compressed(tree, path))
          /\ wk' = [wk EXCEPT ![r].st = "remove"]
       \/ /\ tree' = WriteFile(tree, GzPath(path), Cut(Compressed(tree, path)))
          /\ wk' = [wk EXCEPT ![r].st = "raised"]
       \/ /\ wk' = [wk EXCEPT ![r].st = "raised"]
          /\ UNCHANGED tree
    /\ UNCHANGED <<args, pc, game_id, end_game, existing, queue, totals,
                   index_json, hist>>
    /\ UNCHANGED <<findVars, scanVars>>

\* os.remove(save_path) and return True (lines 55-56).
WorkerRemove(r) ==
    /\ pc = "batch"
    /\ r \in DOMAIN wk
    /\ wk[r].st = "remove"
    /\ \/ /\ tree' = RemoveFile(tree, SavePath(game_id, r))
          /\ wk' = [wk EXCEPT ![r].st = "ok"]
       \/ /\ wk' = [wk EXCEPT ![r].st = "raised"]
          /\ UNCHANGED tree
    /\ UNCHANGED <<args, pc, game_id, end_game, existing, queue, totals,
                   index_json, hist>>
    /\ UNCHANGED <<findVars, scanVars>>

\* A loop that stops waiting once every task has been started.
DrainedQueueOnly == queue = <<>>

\* The executor's futures are all done: as_completed has yielded every one
\* (lines 121-124, 181-187).  future.result() re-raises a worker's exception;
\* leaving the `with` block waits for the tasks left, then the exception
\* leaves download_range and main.
Drained == queue = <<>> /\ Running = {}

BatchDone ==
    /\ pc = "batch"
    /\ Drained
    /\ IF \E r \in DOMAIN wk : wk[r].st = "raised"
       THEN /\ pc' = "raised"
            /\ UNCHANGED <<totals, wk>>
       ELSE /\ pc' = "sleep"
            /\ totals' = [downloaded |-> totals.downloaded
                              + Cardinality({r \in DOMAIN wk : wk[r].st = "ok"}),
                          files |-> totals.files + Cardinality(DOMAIN wk)]
            /\ wk' = <<>>
    /\ UNCHANGED <<args, game_id, end_game, existing, tree, queue,
                   index_json, hist>>
    /\ UNCHANGED <<findVars, scanVars>>

\* time.sleep(0.5), line 195: the match it follows is recorded; the variant
\* does not sleep.
time_sleep_missing(h, g) == h
time_sleep(h, g) == [h EXCEPT !.slept = @ \cup {g}]

\* The sleep after a match's batch, and the loop's next turn.
Sleep ==
    /\ pc = "sleep"
    /\ hist' = time_sleep(hist, game_id)
    /\ game_id' = game_id + 1
    /\ pc' = "loop"
    /\ UNCHANGED <<args, end_game, existing, tree, queue, wk, totals, index_json>>
    /\ UNCHANGED <<findVars, scanVars>>

\* The range is used up: self.generate_index(save_dir), lines 202-244.
\* os.listdir raises FileNotFoundError when save_dir does not exist, and
\* open(index_path, 'w') may raise an OSError.
Index ==
    /\ pc = "loop"
    /\ game_id > end_game
    /\ IF ~tree.root
       THEN /\ pc' = "raised"
            /\ UNCHANGED index_json
       ELSE \/ \E listing \in Listings(tree) :
                 /\ index_json' = [written |-> TRUE,
                                   content |-> json_dump(generate_index(tree, listing))]
                 /\ pc' = "done"
            \/ /\ pc' = "raised"
               /\ UNCHANGED index_json
    /\ UNCHANGED <<args, game_id, end_game, existing, tree, queue, wk, totals, hist>>
    /\ UNCHANGED <<findVars, scanVars>>

Next ==
    \/ Main
    \/ Gate
    \/ WorkerStart
    \/ \E r \in 1..MaxRoundsStub :
          \/ WorkerGet(r)
          \/ WorkerMkdir(r)
          \/ WorkerWrite(r)
          \/ WorkerCompress(r)
          \/ WorkerRemove(r)
    \/ BatchDone
    \/ Sleep
    \/ Index

Spec == Init /\ [][Next]_vars

(***************************************************************************)
(* Properties of the sweep.                                                *)
(***************************************************************************)
\* The rounds of match g whose compressed artifact is on disk.
ArtifactRounds(g) ==
    {r \in 1..MaxRoundsStub : Exists(tree, GzPath(SavePath(g, r)))}

\* The rounds index.json lists for match g.
IndexedRounds(g) ==
    IF str(g) \in DOMAIN index_json.content
    THEN {index_json.content[str(g)].rounds[k] :
             k \in DOMAIN index_json.content[str(g)].rounds}
    ELSE {}

\* download_file has ended for round r of the current batch.
Ended(r) == r \in DOMAIN wk /\ wk[r].st \in {"ok", "failed", "raised"}

\* C3: after download_range has finished a sweep, the rebuilt index maps each
\* match to exactly the rounds whose compressed artifact
\* save_dir/{match}/{round}_0_mjai.json.gz is on disk.
CE_C3_IndexReflectsArtifacts ==
    pc = "done" => \A g \in 1..MaxGame : IndexedRounds(g) = ArtifactRounds(g)

\* C4: in skip-existing mode, with every round of match 1 downloaded by an
\* earlier run, the sweep sends no GET for a round of match 1.
CE_C4_SkipExistingNoFetch ==
    (args.skip_existing /\ hist.preloaded)
        => \A r \in 1..MaxRoundsStub : <<1, r>> \notin hist.gets

\* C5: a filesystem error in a worker becomes that task's reported failure:
\* no future of the batch ends with an exception, and the sweep is not left
\* before the last match of the range has been processed.
CE_C5_FsErrorReported ==
    /\ \A r \in DOMAIN wk : wk[r].st # "raised"
    /\ pc = "raised" => game_id > end_game

\* C6: a task whose GET attempts all fail makes exactly retry_times attempts,
\* then returns failure, and has written no file; no task ever sends more than
\* retry_times requests.
Thm_C6_ExactRetries ==
    \A r \in DOMAIN wk :
        /\ wk[r].sent <= retry_times
        /\ (Ended(r) /\ ~wk[r].got)
              => /\ wk[r].st = "failed"
                 /\ wk[r].sent = retry_times
                 /\ ~wk[r].wrote
                 /\ ~Exists(tree, SavePath(game_id, r))

\* A round the store holds whose attempts all failed.
Wit_C6_SustainedFailure ==
    \E r \in DOMAIN wk :
        /\ <<game_id, r>> \in RemoteStore
        /\ wk[r].st = "failed"
        /\ wk[r].sent = retry_times

\* C7: when download_file has returned success, the temporary file is gone,
\* the .gz artifact exists and decompresses to the body of the successful GET.
Thm_C7_SuccessLeavesArtifact ==
    \A r \in DOMAIN wk :
        wk[r].st = "ok"
            => /\ wk[r].got
               /\ ~Exists(tree, SavePath(game_id, r))
               /\ Exists(tree, GzPath(SavePath(game_id, r)))
               /\ gunzip(tree.files[GzPath(SavePath(game_id, r))]) = wk[r].body
               /\ wk[r].body = Body(game_id, r)

\* A success on a later attempt, after a failed one.
Wit_C7_SuccessAfterRetry ==
    \E r \in DOMAIN wk : wk[r].st = "ok" /\ wk[r].sent > 1

\* C8: the number of download_file calls in flight never exceeds max_workers.
Thm_C8_BoundedInFlight == Cardinality(Running) <= args.threads

\* Every worker is busy and a task waits in the queue.
Wit_C8_TaskWaits ==
    /\ pc = "batch"
    /\ Cardinality(Running) = args.threads
    /\ queue # <<>>

\* C9: the matches are probed once each in ascending order from start_game,
\* and no task is issued, and no GET sent, for a match whose probe answered
\* absent.
Thm_C9_GateOncePerMatch ==
    /\ \A k \in DOMAIN hist.probes : hist.probes[k] = args.start + k - 1
    /\ Len(hist.probes) <= (IF end_game >= args.start
                            THEN end_game - args.start + 1 ELSE 0)
    /\ pc = "done" => Len(hist.probes) = (IF end_game >= args.start
                                          THEN end_game - args.start + 1 ELSE 0)
    /\ \A g \in hist.absent :
          \A x \in hist.issued \cup hist.gets : x[1] # g

\* A match skipped as absent, then a later match with tasks issued.
Wit_C9_SkipThenBatch ==
    \E g \in hist.absent : \E x \in hist.issued : x[1] > g

\* C10 as stated: when a match's probe is sent, download_range has slept after
\* every earlier match of the range, whatever that match's outcome.
CE_C10_SleepAfterEveryMatch ==
    \A k \in DOMAIN hist.probes :
        k < Len(hist.probes) => hist.probes[k] \in hist.slept

\* C10 amended: when a match's probe is sent, download_range has slept after
\* an earlier match exactly when that match passed the existence gate; a
\* match skipped as absent is followed by no sleep.
Thm_C10_SleepAfterGatedMatch ==
    /\ \A k \in DOMAIN hist.probes :
          k < Len(hist.probes)
              => (hist.probes[k] \in hist.slept <=> hist.probes[k] \notin hist.absent)
    /\ hist.slept \cap hist.absent = {}

\* Three probes sent: after a skipped match and after a match that had a
\* batch.
Wit_C10_SleptAndSkipped ==
    /\ \E k \in DOMAIN hist.probes :
          k < Len(hist.probes) /\ hist.probes[k] \in hist.slept
    /\ \E k \in DOMAIN hist.probes :
          k < Len(hist.probes) /\ hist.probes[k] \in hist.absent

\* C11: once the last match of the range has been processed, the sweep ends
\* with generate_index run to completion and index.json written, whatever the
\* matches' outcomes were (an error writing index.json itself set aside: it
\* needs save_dir to exist).
CE_C11_SweepEndsWithIndex ==
    (game_id > end_game /\ pc = "raised") => tree.root

(***************************************************************************)
(* SpecProbe: one call of check_url_exists; the answers the HEAD requests  *)
(* would get, attempt by attempt, are the input.                           *)
(***************************************************************************)
FindIdle ==
    /\ B = 0
    /\ flaky = FALSE
    /\ find = FindStart
    /\ probed = <<>>

InitProbe ==
    /\ heads \in [1..retry_times -> Answers]
    /\ answer = [done |-> FALSE, exists |-> FALSE, requests |-> 0]
    /\ dir_order = <<>>
    /\ catalogs = <<>>
    /\ FindIdle
    /\ SweepIdle

\* The call, from its first request to its return (lines 23-36).
ProbeCall ==
    /\ ~answer.done
    /\ answer' = [done |-> TRUE,
                  exists |-> check_url_exists(heads).exists,
                  requests |-> check_url_exists(heads).requests]
    /\ UNCHANGED <<heads, dir_order, catalogs>>
    /\ UNCHANGED <<findVars, sweepVars>>

NextProbe == ProbeCall

SpecProbe == InitProbe /\ [][NextProbe]_vars

\* The attempts answered 200 or 404.
Definitive == {k \in 1..retry_times : heads[k] \in {"200", "404"}}

\* C12: check_url_exists returns at the first 200 (exists) or 404 (not
\* exists) without a further request; every other outcome uses up one
\* attempt; at most retry_times requests are sent, and the result is
\* not-exists when all attempts are used up.
Thm_C12_ProbeShortCircuits ==
    answer.done =>
        /\ answer.requests \in 1..retry_times
        /\ IF Definitive # {}
           THEN /\ answer.requests = MinOf(Definitive)
                /\ answer.exists = (heads[MinOf(Definitive)] = "200")
           ELSE /\ answer.requests = retry_times
                /\ ~answer.exists

\* A 404 at the second attempt, after a failure, with a 200 waiting behind it.
Wit_C12_NotFoundAfterFailure ==
    /\ answer.done
    /\ heads = <<"exc", "404", "200">>
    /\ answer.requests = 2
    /\ ~answer.exists

(***************************************************************************)
(* SpecIndex: generate_index run again and again on a storage tree that    *)
(* nothing else changes.  The trees hold directories with and without an   *)
(* integer name and, in them, files that lines 221-224 accept and files    *)
(* they pass over.                                                         *)
(***************************************************************************)
\* The largest round number in a file name of these trees.
MaxIndexRound == 2

\* The number of consecutive runs of generate_index.
Runs == 2

\* index.json, the file line 238 adds to save_dir.
IndexName == <<"index", ".json">>

\* "1_0_mjai.json" ..., "01_0_mjai.json" (int("01") = 1), an artifact as
\* download_file leaves it ("1_0_mjai.json.gz"), and "x_0_mjai.json"
\* (int("x") raises ValueError).
IndexFileNames ==
    {RoundFile(r) : r \in 1..MaxIndexRound}
        \cup {<<"0">> \o RoundFile(1),
              GzName(RoundFile(1)),
              <<"x", "_", "0", "_", "mjai", ".json">>}

\* Directories "1", "abc" and "01" (int("01") = 1, the key of "1" as well).
AbcDir == <<"a", "b", "c">>
AliasDir == <<"0", "1">>
IndexDirNames == {str(1), AbcDir, AliasDir}

\* A tree with the directories DOMAIN content, content[d] the file names of d.
TreeOf(content) ==
    [root |-> TRUE,
     dirs |-> DOMAIN content,
     files |-> [q \in UNION {{<<d, n>> : n \in content[d]} : d \in DOMAIN content}
                   |-> Body(1, 1)]]

IndexTrees ==
    {TreeOf(c) : c \in UNION {{x \in [D -> SUBSET IndexFileNames] :
                                  AliasDir \in D => x[AliasDir] = {RoundFile(1)}} :
                              D \in SUBSET IndexDirNames}}

InitIndex ==
    /\ FindIdle
    /\ args = [start |-> 1, end |-> NoneVal, start_round |-> 1,
               end_round |-> NoneVal, skip_existing |-> FALSE, threads |-> 1]
    /\ pc = "idle"
    /\ game_id = 0
    /\ end_game = NoneVal
    /\ existing = <<>>
    /\ tree \in IndexTrees
    /\ queue = <<>>
    /\ wk = <<>>
    /\ totals = [downloaded |-> 0, files |-> 0]
    /\ index_json = [written |-> FALSE, content |-> <<>>]
    /\ hist = <<>>
    /\ heads = <<>>
    /\ answer = [done |-> FALSE, exists |-> FALSE, requests |-> 0]
    /\ dir_order \in Listings(tree)
    /\ catalogs = <<>>

InsertAt(l, pos, x) == SubSeq(l, 1, pos) \o <<x>> \o SubSeq(l, pos + 1, Len(l))

\* One run of generate_index (lines 204-244).  os.listdir(save_dir) lists the
\* directories in the order dir_order and, once a run has written it,
\* index.json somewhere among them.
IndexRun ==
    /\ Len(catalogs) < Runs
    /\ \E pos \in 0..Len(dir_order) :
          LET listing == IF index_json.written
                         THEN InsertAt(dir_order, pos, IndexName)
                         ELSE dir_order
              index == generate_index(tree, listing)
          IN  /\ catalogs' = Append(catalogs, [index |-> index,
                                               file |-> json_dump(index)])
              /\ index_json' = [written |-> TRUE, content |-> json_dump(index)]
    /\ UNCHANGED <<heads, answer, dir_order>>
    /\ UNCHANGED <<args, pc, game_id, end_game, existing, tree, queue, wk,
                   totals, hist>>
    /\ UNCHANGED findVars

NextIndex == IndexRun

SpecIndex == InitIndex /\ [][NextIndex]_vars

\* C13: two consecutive runs of generate_index on a tree that only the first
\* run's index.json has been added to return the same catalog and write the
\* same index.json.
Thm_C13_RebuildIdempotent ==
    \A i \in 1..(Len(catalogs) - 1) :
        /\ catalogs[i + 1].index = catalogs[i].index
        /\ catalogs[i + 1].file = catalogs[i].file

\* Two runs over a tree whose catalog is not empty.
Wit_C13_TwoRuns ==
    /\ Len(catalogs) >= 2
    /\ index_json.written
    /\ DOMAIN catalogs[2].index # {}
    /\ index_json.content = catalogs[1].file

\* The files of directory d that lines 221-224 turn into a round number.
Recognized(d) ==
    {n \in ListDir(tree, d) :
        /\ n[Len(n)] = ".json"
        /\ HasRoundSuffix(n)
        /\ IsInt(FirstField(n))}

\* C14: the catalog has no entry for a directory without a recognizable
\* round file and none for a directory whose name is no integer, also when
\* that directory holds valid round files; the run completes in both cases.
Thm_C14_OnlyNumericNonEmpty ==
    \A i \in DOMAIN catalogs :
        /\ \A k \in DOMAIN catalogs[i].index :
              LET d == catalogs[i].index[k].directory IN
              /\ d \in tree.dirs
              /\ IsInt(d)
              /\ Recognized(d) # {}
        /\ \A s \in DOMAIN catalogs[i].file :
              LET d == catalogs[i].file[s].directory IN
              /\ d \in tree.dirs
              /\ IsInt(d)
              /\ Recognized(d) # {}

\* "abc" holds a valid round file, "1" holds only files that are not
\* recognized; the run has completed with an empty catalog.
Wit_C14_AbcAndEmptySkipped ==
    /\ Len(catalogs) >= 1
    /\ tree.dirs = {AbcDir, str(1)}
    /\ RoundFile(1) \in ListDir(tree, AbcDir)
    /\ ListDir(tree, str(1)) # {}
    /\ Recognized(str(1)) = {}
    /\ catalogs[1].index = <<>>
    /\ index_json = [written |-> TRUE, content |-> <<>>]

\* C19: every record of the catalog is consistent with itself: rounds is
\* ascending without repeated values, total_rounds is its length, min_round
\* its first and max_round its last element, and directory is the name of
\* the match directory whose integer value is the key.
CE_C19_RecordSelfConsistent ==
    \A i \in DOMAIN catalogs :
        \A k \in DOMAIN catalogs[i].index :
            LET rec == catalogs[i].index[k] IN
            /\ \A a, b \in DOMAIN rec.rounds : a < b => rec.rounds[a] < rec.rounds[b]
            /\ rec.total_rounds = Len(rec.rounds)
            /\ rec.min_round = rec.rounds[1]
            /\ rec.max_round = rec.rounds[Len(rec.rounds)]
            /\ rec.directory \in tree.dirs
            /\ IsInt(rec.directory)
            /\ int(rec.directory) = k

(***************************************************************************)
(* SpecTasks: the sweep of one match, for round ranges that start and end  *)
(* below, at and beyond the round bound find_max_rounds returns.           *)
(***************************************************************************)
InitTasks ==
    /\ B = LastGame
    /\ flaky = FALSE
    /\ find = FindStart
    /\ probed = <<>>
    /\ args \in [start : {1}, end : {1},
                 start_round : 1..(MaxRoundsStub + 1),
                 end_round : {NoneVal} \cup (0..(MaxRoundsStub + 1)),
                 skip_existing : {FALSE}, threads : {MaxWorkers}]
    /\ pc = "main"
    /\ game_id = 0
    /\ end_game = NoneVal
    /\ existing = <<>>
    /\ tree = EmptyTree
    /\ index_json = [written |-> FALSE, content |-> <<>>]
    /\ hist = [probes |-> <<>>, absent |-> {}, issued |-> {}, slept |-> {},
               gets |-> {}, preloaded |-> FALSE]
    /\ queue = <<>>
    /\ wk = <<>>
    /\ totals = [downloaded |-> 0, files |-> 0]
    /\ ScanIdle

SpecTasks == InitTasks /\ [][Next]_vars

\* The rounds lo, lo + 1, ..., hi in ascending order, one entry each.
RoundRange(lo, hi) == [k \in 1..(hi - lo + 1) |-> lo + k - 1]

\* The batch of match game_id has just been handed to the pool.
JustSubmitted == pc = "batch" /\ wk = <<>>

\* C15: for a match that passes the gate the tasks handed to the pool are one
\* per round of start_round..end_round when an end round is given, whatever
\* its value, and of start_round..find_max_rounds(match) otherwise.
CE_C15_TasksCoverRequestedRange ==
    JustSubmitted =>
        queue = RoundRange(args.start_round,
                           IF args.end_round # NoneVal
                           THEN args.end_round
                           ELSE find_max_rounds(game_id))

\* C15, as the code has it: an end round beyond find_max_rounds(match) is cut
\* down to it.
Thm_C15_TasksCoverClippedRange ==
    /\ JustSubmitted =>
          queue = RoundRange(args.start_round,
                             IF args.end_round # NoneVal
                                  /\ args.end_round < find_max_rounds(game_id)
                             THEN args.end_round
                             ELSE find_max_rounds(game_id))
    /\ \A t \in hist.issued :
          /\ t[1] \in {hist.probes[k] : k \in DOMAIN hist.probes} \ hist.absent
          /\ t[2] >= args.start_round
          /\ t[2] <= find_max_rounds(t[1])
          /\ args.end_round # NoneVal => t[2] <= args.end_round

\* An end round beyond the bound: the batch ends at the bound.
Wit_C15_EndRoundBeyondBound ==
    /\ JustSubmitted
    /\ args.end_round > find_max_rounds(game_id)
    /\ queue # <<>>
    /\ queue[Len(queue)] = find_max_rounds(game_id)
    /\ queue[1] = args.start_round

(***************************************************************************)
(* Properties of the worker pool (Spec).                                   *)
(***************************************************************************)
\* C16: whenever download_file is not running for a task (it has returned
\* success or failure, or ended with an error), no uncompressed file is at
\* the task's save_path.
CE_C16_NoTempFileLeft ==
    \A r \in DOMAIN wk :
        Ended(r) => ~Exists(tree, SavePath(game_id, r))

\* A task of the batch of match game_id is queued or in flight.
Pending == queue # <<>> \/ Running # {}

\* C17: while a task of match N's batch is queued or in flight, the sweep is
\* inside that batch: the last probe sent is the one of match N, and no task
\* of a later match has been submitted.
Thm_C17_MatchesInSequence ==
    Pending =>
        /\ pc = "batch"
        /\ hist.probes # <<>>
        /\ hist.probes[Len(hist.probes)] = game_id
        /\ \A k \in DOMAIN hist.probes : hist.probes[k] <= game_id
        /\ \A t \in hist.issued : t[1] <= game_id

\* The batch of match 2 is in flight after the batch of match 1 was run.
Wit_C17_SecondBatchInFlight ==
    /\ game_id = 2
    /\ Running # {}
    /\ <<1, 1>> \in hist.issued
    /\ <<2, 1>> \in hist.issued
    /\ 1 \in hist.slept

\* The paths a task writes: the temporary file and the artifact.
DestPaths(r) == {SavePath(game_id, r), GzPath(SavePath(game_id, r))}

\* C18: no two workers in flight have a destination path in common: the
\* tasks of a batch have pairwise distinct rounds, hence distinct paths, and
\* workers are in flight only inside the batch of the current match.
Thm_C18_DistinctDestinations ==
    /\ \A r1, r2 \in Running : r1 # r2 => DestPaths(r1) \cap DestPaths(r2) = {}
    /\ \A i, j \in DOMAIN queue : i # j => queue[i] # queue[j]
    /\ \A i \in DOMAIN queue : queue[i] \notin DOMAIN wk
    /\ Running # {} => pc = "batch"

\* Two workers of one batch are in flight at the same time, one of them
\* about to write its file.
Wit_C18_TwoInFlight ==
    \E r1, r2 \in Running :
        /\ r1 # r2
        /\ wk[r1].st = "write"
        /\ wk[r2].st = "get"
        /\ wk[r2].sent > 0

(***************************************************************************)
(* SpecFindFair: find_max_games as a running program, which takes its next *)
(* step whenever it has one.                                               *)
(***************************************************************************)
SpecFindFair == InitFind /\ [][NextFind]_vars /\ WF_vars(NextFind)

\* The probes of the expansion: keys 1, 1 + step, ... that all exist, ended
\* by the first key that does not.
ExpansionStopsAtFirstAbsent ==
    IF find.pc = "expand"
    THEN \A k \in DOMAIN probed :
            probed[k].exists /\ probed[k].key = 1 + (k - 1) * step
    ELSE \E k \in DOMAIN probed :
            /\ ~probed[k].exists
            /\ \A j \in 1..k : probed[j].key = 1 + (j - 1) * step
            /\ \A j \in 1..(k - 1) : probed[j].exists

\* A probe of the binary search leaves a smaller interval [low, high].
SearchShrinks ==
    (find.pc = "search" /\ find'.pc = "search")
        => find'.high - find'.low < find.high - find.low

\* C20: against a monotonic predicate with boundary B find_max_games
\* terminates; the expansion stops at the first probed key that does not
\* exist, every probe of the binary search shrinks [low, high], the search
\* stops when the bounds have crossed, and no probed key exceeds B + step.
Thm_C20_FindTerminates ==
    /\ ~flaky => <>(find.pc = "done")
    /\ [](~flaky => ExpansionStopsAtFirstAbsent)
    /\ [](~flaky => \A k \in DOMAIN probed : probed[k].key <= B + step)
    /\ [](find.pc = "done" => find.low > find.high)
    /\ [][~flaky => SearchShrinks]_vars

\* A finished call against a store of 150 matches: two phases of several
\* probes each.
Wit_C20_BothPhasesRun ==
    /\ ~flaky
    /\ B = 150
    /\ find.pc = "done"
    /\ find.last_valid = B
    /\ \E k \in DOMAIN probed : k >= 2 /\ ~probed[k].exists /\ k + 3 <= Len(probed)

====
